---- MODULE Spec2Model ----
(***************************************************************************)
(* Model of optimade/server/query_params.py: BaseQueryParams.check_params  *)
(* and the two shipped parameter classes.  A query-parameter name is a     *)
(* sequence of one-character strings, so that str.split("_") and           *)
(* str.startswith("_") are computed on the characters.                     *)
(***************************************************************************)
EXTENDS Integers, Sequences, FiniteSets, TLC

VARIABLES CONFIG, SUPPORTED_PREFIXES, KNOWN_PROVIDER_PREFIXES, cls,
          query_params, pc, i, errors, warnings, unsupported_warnings,
          emitted

vars == <<CONFIG, SUPPORTED_PREFIXES, KNOWN_PROVIDER_PREFIXES, cls,
          query_params, pc, i, errors, warnings, unsupported_warnings,
          emitted>>

(* ---------------- bounds of the exploration ---------------- *)

\* longest generated parameter name, in characters
MaxLen ==
    2

\* longest generated list of query parameters
MaxParams ==
    2

(* ---------------- names, as character sequences ---------------- *)

n_filter ==
    <<"f", "i", "l", "t", "e", "r">>

n_response_format ==
    <<"r", "e", "s", "p", "o", "n", "s", "e", "_", "f", "o", "r", "m", "a", "t">>

n_email_address ==
    <<"e", "m", "a", "i", "l", "_", "a", "d", "d", "r", "e", "s", "s">>

n_response_fields ==
    <<"r", "e", "s", "p", "o", "n", "s", "e", "_", "f", "i", "e", "l", "d", "s">>

n_sort ==
    <<"s", "o", "r", "t">>

n_page_limit ==
    <<"p", "a", "g", "e", "_", "l", "i", "m", "i", "t">>

n_page_offset ==
    <<"p", "a", "g", "e", "_", "o", "f", "f", "s", "e", "t">>

n_page_number ==
    <<"p", "a", "g", "e", "_", "n", "u", "m", "b", "e", "r">>

n_page_cursor ==
    <<"p", "a", "g", "e", "_", "c", "u", "r", "s", "o", "r">>

n_page_above ==
    <<"p", "a", "g", "e", "_", "a", "b", "o", "v", "e">>

n_page_below ==
    <<"p", "a", "g", "e", "_", "b", "e", "l", "o", "w">>

n_include ==
    <<"i", "n", "c", "l", "u", "d", "e">>

n_api_hint ==
    <<"a", "p", "i", "_", "h", "i", "n", "t">>

n_unsupported_params ==
    <<"u", "n", "s", "u", "p", "p", "o", "r", "t", "e", "d", "_", "p", "a", "r", "a", "m", "s">>

n_check_params ==
    <<"c", "h", "e", "c", "k", "_", "p", "a", "r", "a", "m", "s">>

n_dunder_init ==
    <<"_", "_", "i", "n", "i", "t", "_", "_">>

n_abc_impl ==
    <<"_", "a", "b", "c", "_", "i", "m", "p", "l">>

n_exmpl_extra ==
    <<"_", "e", "x", "m", "p", "l", "_", "e", "x", "t", "r", "a">>

n_vendor_custom ==
    <<"_", "v", "e", "n", "d", "o", "r", "_", "c", "u", "s", "t", "o", "m">>

n_garbage ==
    <<"g", "a", "r", "b", "a", "g", "e">>

n_exmpl ==
    <<"e", "x", "m", "p", "l">>

n_vendor ==
    <<"v", "e", "n", "d", "o", "r">>

\* characters of the generated parameter names
Alphabet ==
    {"_", "a"}

\* every string over Alphabet of at most MaxLen characters
GenNames ==
    UNION {[1..n -> Alphabet] : n \in 0..MaxLen}

\* "_a_": a provider-prefixed name with an empty last segment
n_a_ ==
    <<"_", "a", "_">>

\* "__a": a name whose second segment is empty
n__a ==
    <<"_", "_", "a">>

Range(s) ==
    {s[k] : k \in DOMAIN s}

(* ---------------- the parameter classes ---------------- *)

\* EntryListingQueryParams and SingleEntryQueryParams are the shipped
\* classes; BaseQueryParams has no abstract method and can be instantiated;
\* the two subclasses declare unsupported_params the way the base class
\* documents, with entries their __init__ does not bind.
Classes ==
    {"EntryListingQueryParams", "SingleEntryQueryParams", "BaseQueryParams",
     "CursorSubclass", "PrefixedSubclass"}

\* __init__ of the listing class without "self.page_cursor = page_cursor"
InstanceFields_no_page_cursor(c) ==
    CASE c = "EntryListingQueryParams" ->
           {n_filter, n_response_format, n_email_address, n_response_fields,
            n_sort, n_page_limit, n_page_offset, n_page_number,
            n_page_above, n_page_below, n_include, n_api_hint}
      [] c = "SingleEntryQueryParams" ->
           {n_response_format, n_email_address, n_response_fields, n_include,
            n_api_hint}
      [] c = "BaseQueryParams" -> {}
      [] c = "CursorSubclass" -> {n_filter, n_page_limit}
      [] c = "PrefixedSubclass" -> {n_filter, n_page_limit}

\* the instance attributes that __init__ assigns
InstanceFields(c) ==
    CASE c = "EntryListingQueryParams" ->
           {n_filter, n_response_format, n_email_address, n_response_fields,
            n_sort, n_page_limit, n_page_offset, n_page_number, n_page_cursor,
            n_page_above, n_page_below, n_include, n_api_hint}
      [] c = "SingleEntryQueryParams" ->
           {n_response_format, n_email_address, n_response_fields, n_include,
            n_api_hint}
      [] c = "BaseQueryParams" -> {}
      [] c = "CursorSubclass" -> {n_filter, n_page_limit}
      [] c = "PrefixedSubclass" -> {n_filter, n_page_limit}

\* the class attribute unsupported_params
unsupported_params(c) ==
    CASE c = "EntryListingQueryParams" -> <<n_page_cursor, n_page_below>>
      [] c = "SingleEntryQueryParams" -> <<>>
      [] c = "BaseQueryParams" -> <<>>
      [] c = "CursorSubclass" -> <<n_page_cursor>>
      [] c = "PrefixedSubclass" -> <<n_a_>>

\* attributes every instance has through its class: the two members of
\* BaseQueryParams, __init__, and the _abc_impl that ABC adds.  No other
\* attribute name of a Python object occurs among the names explored.
ClassAttributes ==
    {n_unsupported_params, n_check_params, n_dunder_init, n_abc_impl}

\* hasattr(self, name)
hasattr(c, name) ==
    name \in InstanceFields(c) \cup ClassAttributes

\* getattr(obj, name, default) on an object given as attribute -> value
getattr(obj, name, default) ==
    IF name \in DOMAIN obj THEN obj[name] ELSE default

\* the flag read with the default True: an absent flag enables validation
validate_query_parameters_default_true ==
    getattr(CONFIG, "validate_query_parameters", TRUE)

\* getattr(CONFIG, "validate_query_parameters", False)
validate_query_parameters ==
    getattr(CONFIG, "validate_query_parameters", FALSE)

(* ---------------- str.split and str.startswith ---------------- *)

RECURSIVE SplitFrom(_, _, _, _)
SplitFrom(s, k, cur, acc) ==
    IF k > Len(s) THEN Append(acc, cur)
    ELSE IF s[k] = "_" THEN SplitFrom(s, k + 1, <<>>, Append(acc, cur))
    ELSE SplitFrom(s, k + 1, Append(cur, s[k]), acc)

\* param.split("_")
split(s) ==
    SplitFrom(s, 1, <<>>, <<>>)

\* param.startswith("_")
startswith_underscore(s) ==
    Len(s) >= 1 /\ s[1] = "_"

(* ---------------- the body of the for loop ---------------- *)

\* lines 57-58: the list after "if param in self.unsupported_params: append"
AppendUnsupported(c, param, uw) ==
    IF param \in Range(unsupported_params(c)) THEN Append(uw, param) ELSE uw

\* the shape test and prefix lookup of lines 60-68, with the segment
\* threshold and the order and polarity of the two lookups as arguments
Lookup(param, supported, known, minlen, knownfirst, unknownto, knownto, both) ==
    LET split_param == split(param) IN
    IF startswith_underscore(param) /\ Len(split_param) > minlen
    THEN LET prefix == split_param[2] IN
         IF knownfirst /\ prefix \in known THEN knownto
         ELSE IF prefix \in supported
              THEN IF both /\ prefix \notin known
                   THEN {"errors", "warnings"} ELSE {"errors"}
         ELSE IF prefix \notin known THEN unknownto
         ELSE knownto
    ELSE {"errors"}

\* line 59 dropped: every name is classified, attribute or not
Buckets_no_hasattr(c, param, supported, known) ==
    Lookup(param, supported, known, 2, FALSE, {"warnings"}, {}, FALSE)

\* the known-provider lookup made before the supported-prefix lookup
Buckets_known_first(c, param, supported, known) ==
    IF ~hasattr(c, param)
    THEN Lookup(param, supported, known, 2, TRUE, {"warnings"}, {}, FALSE)
    ELSE {}

\* line 66 appending to errors instead of warnings
Buckets_unknown_is_error(c, param, supported, known) ==
    IF ~hasattr(c, param)
    THEN Lookup(param, supported, known, 2, FALSE, {"errors"}, {}, FALSE)
    ELSE {}

\* line 65 without its "not": the known prefixes are the ones warned about
Buckets_known_warns(c, param, supported, known) ==
    IF ~hasattr(c, param)
    THEN Lookup(param, supported, known, 2, FALSE, {}, {"warnings"}, FALSE)
    ELSE {}

\* line 61 with "len(split_param) >= 2"
Buckets_two_segments(c, param, supported, known) ==
    IF ~hasattr(c, param)
    THEN Lookup(param, supported, known, 1, FALSE, {"warnings"}, {}, FALSE)
    ELSE {}

\* line 59 as "elif": a name on unsupported_params is not classified further
Buckets_elif(c, param, supported, known) ==
    IF param \notin Range(unsupported_params(c)) /\ ~hasattr(c, param)
    THEN Lookup(param, supported, known, 2, FALSE, {"warnings"}, {}, FALSE)
    ELSE {}

\* line 65 as "if": the two lookups made independently of each other
Buckets_if_if(c, param, supported, known) ==
    IF ~hasattr(c, param)
    THEN Lookup(param, supported, known, 2, FALSE, {"warnings"}, {}, TRUE)
    ELSE {}

\* lines 59-68: the lists among errors and warnings that param is appended to
Buckets(c, param, supported, known) ==
    IF ~hasattr(c, param)
    THEN LET split_param == split(param) IN
         IF startswith_underscore(param) /\ Len(split_param) > 2
         THEN LET prefix == split_param[2] IN
              IF prefix \in supported THEN {"errors"}
              ELSE IF prefix \notin known THEN {"warnings"}
              ELSE {}
         ELSE {"errors"}
    ELSE {}

(* ---------------- initial states ---------------- *)

\* the provider prefixes the registries may hold
PrefixUniverse ==
    {<<"a">>}

\* every name the shipped classes declare or inherit
DeclaredNames ==
    InstanceFields("EntryListingQueryParams") \cup ClassAttributes

\* the names a generated request may carry: the short strings, two names
\* with three segments, and four declared names
Names ==
    GenNames \cup {n_a_, n__a}
        \cup {n_filter, n_page_cursor, n_page_below, n_check_params}

\* the requests: every list of at most MaxParams names, and every declared
\* name alone
ParamLists ==
    UNION {[1..n -> Names] : n \in 0..MaxParams}
        \cup {<<d>> : d \in DeclaredNames}

\* CONFIG without the flag, with the flag off, with the flag on
ConfigChoices ==
    {[x \in {} |-> FALSE],
     [validate_query_parameters |-> FALSE],
     [validate_query_parameters |-> TRUE]}

Locals ==
    /\ pc = "start"
    /\ i = 0
    /\ errors = <<>>
    /\ warnings = <<>>
    /\ unsupported_warnings = <<>>
    /\ emitted = <<>>

GeneratedInit ==
    /\ CONFIG \in ConfigChoices
    /\ SUPPORTED_PREFIXES \in SUBSET PrefixUniverse
    /\ KNOWN_PROVIDER_PREFIXES \in SUBSET PrefixUniverse
    /\ cls \in Classes
    /\ query_params \in ParamLists
    /\ Locals

\* the request of the worked scenario: a class binding filter and page_limit,
\* page_cursor unsupported, prefixes exmpl (supported) and vendor (known)
ScenarioParams ==
    <<n_filter, n_exmpl_extra, n_vendor_custom, n_garbage, n_page_cursor>>

ScenarioInit ==
    /\ CONFIG = [validate_query_parameters |-> TRUE]
    /\ SUPPORTED_PREFIXES = {n_exmpl}
    /\ KNOWN_PROVIDER_PREFIXES = {n_vendor}
    /\ cls = "CursorSubclass"
    /\ query_params = ScenarioParams
    /\ Locals

Init ==
    GeneratedInit \/ ScenarioInit

(* ---------------- check_params, step by step ---------------- *)

\* lines 51-55: the early return, or the three empty lists
Start ==
    /\ pc = "start"
    /\ IF ~validate_query_parameters
       THEN pc' = "returned"
       ELSE pc' = "loop"
    /\ UNCHANGED <<CONFIG, SUPPORTED_PREFIXES, KNOWN_PROVIDER_PREFIXES, cls,
                   query_params, i, errors, warnings, unsupported_warnings,
                   emitted>>

\* the loop left at the first name appended to errors (a break after
\* errors.append)
Iterate_break_on_error ==
    /\ pc = "loop"
    /\ i < Len(query_params)
    /\ LET param == query_params[i + 1]
           b == Buckets(cls, param, SUPPORTED_PREFIXES, KNOWN_PROVIDER_PREFIXES)
       IN  /\ unsupported_warnings' =
                 AppendUnsupported(cls, param, unsupported_warnings)
           /\ errors' = IF "errors" \in b THEN Append(errors, param) ELSE errors
           /\ warnings' =
                 IF "warnings" \in b THEN Append(warnings, param) ELSE warnings
           /\ i' = IF "errors" \in b THEN Len(query_params) ELSE i + 1
    /\ UNCHANGED <<CONFIG, SUPPORTED_PREFIXES, KNOWN_PROVIDER_PREFIXES, cls,
                   query_params, pc, emitted>>

\* lines 56-68: one iteration of the for loop
Iterate ==
    /\ pc = "loop"
    /\ i < Len(query_params)
    /\ LET param == query_params[i + 1]
           b == Buckets(cls, param, SUPPORTED_PREFIXES, KNOWN_PROVIDER_PREFIXES)
       IN  /\ unsupported_warnings' =
                 AppendUnsupported(cls, param, unsupported_warnings)
           /\ errors' = IF "errors" \in b THEN Append(errors, param) ELSE errors
           /\ warnings' =
                 IF "warnings" \in b THEN Append(warnings, param) ELSE warnings
    /\ i' = i + 1
    /\ UNCHANGED <<CONFIG, SUPPORTED_PREFIXES, KNOWN_PROVIDER_PREFIXES, cls,
                   query_params, pc, emitted>>

\* lines 82-85 moved above line 70: the error raised before any warning
WarnUnknownProvider_raise_first ==
    /\ pc = "loop"
    /\ i = Len(query_params)
    /\ IF errors # <<>>
       THEN /\ emitted' = Append(emitted, [category |-> "BadRequest",
                                           params |-> errors])
            /\ pc' = "raised"
       ELSE /\ emitted' = IF warnings # <<>>
                          THEN Append(emitted,
                                      [category |-> "UnknownProviderQueryParameter",
                                       params |-> warnings])
                          ELSE emitted
            /\ pc' = "warn_unsupported"
    /\ UNCHANGED <<CONFIG, SUPPORTED_PREFIXES, KNOWN_PROVIDER_PREFIXES, cls,
                   query_params, i, errors, warnings, unsupported_warnings>>

\* lines 70-74, reached when the iterable is exhausted
WarnUnknownProvider ==
    /\ pc = "loop"
    /\ i = Len(query_params)
    /\ emitted' = IF warnings # <<>>
                  THEN Append(emitted, [category |-> "UnknownProviderQueryParameter",
                                        params |-> warnings])
                  ELSE emitted
    /\ pc' = "warn_unsupported"
    /\ UNCHANGED <<CONFIG, SUPPORTED_PREFIXES, KNOWN_PROVIDER_PREFIXES, cls,
                   query_params, i, errors, warnings, unsupported_warnings>>

\* lines 76-80
WarnUnsupported ==
    /\ pc = "warn_unsupported"
    /\ emitted' = IF unsupported_warnings # <<>>
                  THEN Append(emitted, [category |-> "QueryParamNotUsed",
                                        params |-> unsupported_warnings])
                  ELSE emitted
    /\ pc' = "raise"
    /\ UNCHANGED <<CONFIG, SUPPORTED_PREFIXES, KNOWN_PROVIDER_PREFIXES, cls,
                   query_params, i, errors, warnings, unsupported_warnings>>

\* lines 82-85: raise BadRequest, or fall off the end and return None
RaiseBadRequest ==
    /\ pc = "raise"
    /\ IF errors # <<>>
       THEN /\ emitted' = Append(emitted, [category |-> "BadRequest",
                                           params |-> errors])
            /\ pc' = "raised"
       ELSE /\ emitted' = emitted
            /\ pc' = "returned"
    /\ UNCHANGED <<CONFIG, SUPPORTED_PREFIXES, KNOWN_PROVIDER_PREFIXES, cls,
                   query_params, i, errors, warnings, unsupported_warnings>>

Next ==
    \/ Start
    \/ Iterate
    \/ WarnUnknownProvider
    \/ WarnUnsupported
    \/ RaiseBadRequest

Spec ==
    Init /\ [][Next]_vars

(* ---------------- vocabulary of the properties ---------------- *)

\* the validation flag is present and true
FlagOn ==
    /\ "validate_query_parameters" \in DOMAIN CONFIG
    /\ CONFIG["validate_query_parameters"] = TRUE

\* the call has ended, by return or by raise
Done ==
    pc \in {"returned", "raised"}

\* number of occurrences of x in seq
Occ(seq, x) ==
    Cardinality({k \in DOMAIN seq : seq[k] = x})

\* the name is recognized: the attribute-presence test finds it
Recognized(n) ==
    n \in InstanceFields(cls) \cup ClassAttributes

\* the name has the shape _<prefix>_<rest>: it starts with "_" and has a
\* second "_"
ProviderShape(n) ==
    /\ Len(n) >= 1
    /\ n[1] = "_"
    /\ \E k \in 2..Len(n) : n[k] = "_"

\* the characters between the leading "_" and the next "_"
PrefixOf(n) ==
    LET k == CHOOSE k \in 2..Len(n) :
                 n[k] = "_" /\ \A j \in 2..(k - 1) : n[j] # "_"
    IN  SubSeq(n, 2, k - 1)

OnUnsupportedList(n) ==
    \E k \in DOMAIN unsupported_params(cls) : unsupported_params(cls)[k] = n

\* the notices and errors of one category emitted so far
Emitted(cat) ==
    {k \in DOMAIN emitted : emitted[k].category = cat}

InputNames ==
    Range(query_params)

(* ---------------- C1 ---------------- *)

\* C1: with the validation flag false or absent, check_params does nothing:
\* no name is read from the input, the three lists stay empty, nothing is
\* emitted and the call returns without raising.
C1_DisabledIsNoOp ==
    ~FlagOn =>
        /\ pc \in {"start", "returned"}
        /\ i = 0
        /\ errors = <<>> /\ warnings = <<>> /\ unsupported_warnings = <<>>
        /\ emitted = <<>>

\* a disabled call has returned on an input holding a name that validation
\* would reject and a name that validation would warn about
C1_Witness ==
    /\ ~FlagOn
    /\ pc = "returned"
    /\ \E n \in InputNames : ~Recognized(n) /\ ~ProviderShape(n)
    /\ \E n \in InputNames : OnUnsupportedList(n)

(* ---------------- C2 ---------------- *)

\* C2 as stated: with validation enabled a recognized name is in none of the
\* three lists, and an input of recognized names only emits nothing and
\* returns.
C2_Original ==
    (FlagOn /\ Done) =>
        /\ \A n \in InputNames : Recognized(n) =>
              /\ Occ(errors, n) = 0
              /\ Occ(warnings, n) = 0
              /\ Occ(unsupported_warnings, n) = 0
        /\ (\A n \in InputNames : Recognized(n)) =>
              (pc = "returned" /\ emitted = <<>>)

\* C2, amended: with validation enabled a recognized name is never in errors
\* nor in warnings, and it is in unsupported_warnings exactly when it is on
\* unsupported_params; an input of recognized names only returns without
\* BadRequest, and emits nothing unless one of the names is on
\* unsupported_params, when it emits the one QueryParamNotUsed notice.
C2_RecognizedNeverInvalid ==
    (FlagOn /\ Done) =>
        /\ \A n \in InputNames : Recognized(n) =>
              /\ Occ(errors, n) = 0
              /\ Occ(warnings, n) = 0
              /\ Occ(unsupported_warnings, n) =
                    (IF OnUnsupportedList(n) THEN Occ(query_params, n) ELSE 0)
        /\ (\A n \in InputNames : Recognized(n)) =>
              /\ pc = "returned"
              /\ emitted = IF unsupported_warnings = <<>>
                           THEN <<>>
                           ELSE <<[category |-> "QueryParamNotUsed",
                                   params |-> unsupported_warnings]>>
              /\ (emitted = <<>>) <=> (\A n \in InputNames : ~OnUnsupportedList(n))

\* the listing endpoint has returned on recognized names only, page_cursor
\* among them, having emitted the notice
C2_Witness ==
    /\ FlagOn
    /\ pc = "returned"
    /\ cls = "EntryListingQueryParams"
    /\ n_page_cursor \in InputNames
    /\ n_filter \in InputNames
    /\ Len(emitted) = 1

(* ---------------- C3 ---------------- *)

\* C3: with validation enabled, every occurrence of an unrecognized name
\* _<prefix>_<rest> whose prefix is a supported prefix is in errors and none
\* is in warnings, whether or not the prefix is also a known provider prefix;
\* the call raises BadRequest with the errors list.
C3_SupportedPrefixIsInvalid ==
    (FlagOn /\ Done) =>
        \A n \in InputNames :
            (~Recognized(n) /\ ProviderShape(n)
                /\ PrefixOf(n) \in SUPPORTED_PREFIXES) =>
                /\ Occ(errors, n) = Occ(query_params, n)
                /\ Occ(warnings, n) = 0
                /\ pc = "raised"
                /\ emitted[Len(emitted)] =
                      [category |-> "BadRequest", params |-> errors]

\* a call has raised on a name whose prefix is in both prefix sets
C3_Witness ==
    /\ FlagOn
    /\ pc = "raised"
    /\ \E n \in InputNames :
          /\ ~Recognized(n) /\ ProviderShape(n)
          /\ PrefixOf(n) \in SUPPORTED_PREFIXES \cap KNOWN_PROVIDER_PREFIXES
          /\ Occ(errors, n) = 1

(* ---------------- C4 ---------------- *)

\* C4: with validation enabled, every occurrence of an unrecognized name
\* _<prefix>_<rest> whose prefix is in neither prefix set is in warnings and
\* none is in errors; the UnknownProviderQueryParameter notice carries it, and
\* an input of such names only does not raise.
C4_UnknownPrefixWarns ==
    (FlagOn /\ Done) =>
        /\ \A n \in InputNames :
              (~Recognized(n) /\ ProviderShape(n)
                  /\ PrefixOf(n) \notin SUPPORTED_PREFIXES
                  /\ PrefixOf(n) \notin KNOWN_PROVIDER_PREFIXES) =>
                  /\ Occ(warnings, n) = Occ(query_params, n)
                  /\ Occ(errors, n) = 0
                  /\ \E k \in Emitted("UnknownProviderQueryParameter") :
                        emitted[k].params = warnings
        /\ (\A n \in InputNames :
               /\ ~Recognized(n) /\ ProviderShape(n)
               /\ PrefixOf(n) \notin SUPPORTED_PREFIXES
               /\ PrefixOf(n) \notin KNOWN_PROVIDER_PREFIXES) =>
               (pc = "returned" /\ Emitted("BadRequest") = {})

\* a call on _a_ alone, with "a" in neither prefix set, has returned after
\* the notice
C4_Witness ==
    /\ FlagOn
    /\ pc = "returned"
    /\ query_params = <<n_a_>>
    /\ ~Recognized(n_a_)
    /\ <<"a">> \notin SUPPORTED_PREFIXES \cup KNOWN_PROVIDER_PREFIXES
    /\ warnings = <<n_a_>>
    /\ Emitted("UnknownProviderQueryParameter") # {}

(* ---------------- C5 ---------------- *)

\* C5: with validation enabled, an unrecognized name _<prefix>_<rest> whose
\* prefix is a known provider prefix and not a supported one is in neither
\* errors nor warnings, and in unsupported_warnings only if it is on
\* unsupported_params; an input of such names only, none of them on
\* unsupported_params, emits nothing and returns.
C5_KnownProviderSilent ==
    (FlagOn /\ Done) =>
        /\ \A n \in InputNames :
              (~Recognized(n) /\ ProviderShape(n)
                  /\ PrefixOf(n) \in KNOWN_PROVIDER_PREFIXES
                  /\ PrefixOf(n) \notin SUPPORTED_PREFIXES) =>
                  /\ Occ(errors, n) = 0
                  /\ Occ(warnings, n) = 0
                  /\ (~OnUnsupportedList(n) => Occ(unsupported_warnings, n) = 0)
        /\ (\A n \in InputNames :
               /\ ~Recognized(n) /\ ProviderShape(n)
               /\ PrefixOf(n) \in KNOWN_PROVIDER_PREFIXES
               /\ PrefixOf(n) \notin SUPPORTED_PREFIXES
               /\ ~OnUnsupportedList(n)) =>
               (pc = "returned" /\ emitted = <<>>)

\* a call on _a_ alone, "a" a known provider prefix only, has returned
\* silently
C5_Witness ==
    /\ FlagOn
    /\ pc = "returned"
    /\ query_params = <<n_a_>>
    /\ ~OnUnsupportedList(n_a_)
    /\ <<"a">> \in KNOWN_PROVIDER_PREFIXES \ SUPPORTED_PREFIXES
    /\ emitted = <<>>

(* ---------------- C6 ---------------- *)

\* C6: with validation enabled, every occurrence of an unrecognized name that
\* does not both start with "_" and hold a second "_" (foo, a_b, _foo, _, the
\* empty name) is in errors and none is in warnings, whatever the prefix sets
\* hold, and the call raises BadRequest.
C6_ShapelessIsInvalid ==
    (FlagOn /\ Done) =>
        \A n \in InputNames :
            (~Recognized(n) /\ ~ProviderShape(n)) =>
                /\ Occ(errors, n) = Occ(query_params, n)
                /\ Occ(warnings, n) = 0
                /\ pc = "raised"
                /\ Emitted("BadRequest") # {}

\* a call on the empty name and on _a, "a" being a known prefix and not a
\* supported one, has raised with both
C6_Witness ==
    /\ FlagOn
    /\ pc = "raised"
    /\ query_params = << <<>>, <<"_", "a">> >>
    /\ <<"a">> \in KNOWN_PROVIDER_PREFIXES \ SUPPORTED_PREFIXES
    /\ errors = query_params

(* ---------------- C7 ---------------- *)

\* position of a category in the order of emission
Rank(cat) ==
    CASE cat = "UnknownProviderQueryParameter" -> 1
      [] cat = "QueryParamNotUsed" -> 2
      [] cat = "BadRequest" -> 3

\* what has been emitted is in the order unknown-provider notice,
\* unsupported notice, BadRequest; a raised call has emitted the notice of
\* every non-empty warning list and ends with the BadRequest
C7_Order ==
    /\ \A a, b \in DOMAIN emitted :
          a < b => Rank(emitted[a].category) < Rank(emitted[b].category)
    /\ (Emitted("BadRequest") # {}) <=> (pc = "raised")
    /\ pc = "raised" =>
          /\ emitted[Len(emitted)] = [category |-> "BadRequest", params |-> errors]
          /\ warnings # <<>> =>
                \E k \in Emitted("UnknownProviderQueryParameter") :
                    emitted[k].params = warnings
          /\ unsupported_warnings # <<>> =>
                \E k \in Emitted("QueryParamNotUsed") :
                    emitted[k].params = unsupported_warnings

\* C7: within one call with validation enabled the unknown-provider notice
\* comes first, the unsupported-parameter notice second and BadRequest last;
\* when BadRequest is raised the notice of every non-empty warning list has
\* already been emitted, and nothing is emitted after the error.
C7_NoticesBeforeError ==
    /\ [](FlagOn => C7_Order)
    /\ [][Emitted("BadRequest") # {} => emitted' = emitted]_vars

\* a call has raised after emitting both notices
C7_Witness ==
    /\ FlagOn
    /\ pc = "raised"
    /\ Len(emitted) = 3
    /\ warnings # <<>>
    /\ unsupported_warnings # <<>>

(* ---------------- C8 ---------------- *)

\* the request of the scenario is the one being checked
InScenario ==
    /\ FlagOn
    /\ cls = "CursorSubclass"
    /\ SUPPORTED_PREFIXES = {n_exmpl}
    /\ KNOWN_PROVIDER_PREFIXES = {n_vendor}
    /\ query_params = ScenarioParams

\* C8 as stated: the scenario ends with invalid = [_exmpl_extra, garbage],
\* no unknown-provider warning, unsupported = [page_cursor], and BadRequest
\* raised after the notice for page_cursor.
C8_Original ==
    (InScenario /\ Done) =>
        /\ errors = <<n_exmpl_extra, n_garbage>>
        /\ warnings = <<>>
        /\ unsupported_warnings = <<n_page_cursor>>
        /\ pc = "raised"
        /\ emitted = <<[category |-> "QueryParamNotUsed",
                        params |-> <<n_page_cursor>>],
                       [category |-> "BadRequest", params |-> errors]>>

\* C8, amended: the scenario ends with invalid = [_exmpl_extra, garbage,
\* page_cursor] (page_cursor is unsupported and also unrecognized), no
\* unknown-provider warning, unsupported = [page_cursor], and BadRequest
\* raised after the notice for page_cursor.
C8_Scenario ==
    (InScenario /\ Done) =>
        /\ errors = <<n_exmpl_extra, n_garbage, n_page_cursor>>
        /\ warnings = <<>>
        /\ unsupported_warnings = <<n_page_cursor>>
        /\ pc = "raised"
        /\ emitted = <<[category |-> "QueryParamNotUsed",
                        params |-> <<n_page_cursor>>],
                       [category |-> "BadRequest", params |-> errors]>>

\* the scenario has run to its end
C8_Witness ==
    /\ InScenario
    /\ Done
    /\ i = 5

(* ---------------- C9 ---------------- *)

\* the lists among the three that hold the name
BucketsHolding(n) ==
    {b \in {"errors", "warnings", "unsupported_warnings"} :
        \/ b = "errors" /\ Occ(errors, n) > 0
        \/ b = "warnings" /\ Occ(warnings, n) > 0
        \/ b = "unsupported_warnings" /\ Occ(unsupported_warnings, n) > 0}

\* C9 as stated: with validation enabled, whatever the recognized names, the
\* unsupported list and the prefix sets, no input name is in two of the three
\* lists.
C9_Original ==
    (FlagOn /\ Done) =>
        \A n \in InputNames : Cardinality(BucketsHolding(n)) <= 1

\* C9, amended: with validation enabled no input name is in both errors and
\* warnings, and each list holds all occurrences of a name or none; a name is
\* in unsupported_warnings exactly when it is on unsupported_params,
\* independently of the other two lists, so a name is in two lists exactly
\* when it is on unsupported_params, is unrecognized and is flagged invalid
\* or unknown-provider; with every unsupported entry recognized, as in the
\* shipped endpoint kinds, no name is in two lists.
C9_Classification ==
    (FlagOn /\ Done) =>
        \A n \in InputNames :
            /\ ~(Occ(errors, n) > 0 /\ Occ(warnings, n) > 0)
            /\ Occ(errors, n) \in {0, Occ(query_params, n)}
            /\ Occ(warnings, n) \in {0, Occ(query_params, n)}
            /\ Occ(unsupported_warnings, n) =
                  (IF OnUnsupportedList(n) THEN Occ(query_params, n) ELSE 0)
            /\ Cardinality(BucketsHolding(n)) <= 2
            /\ Cardinality(BucketsHolding(n)) = 2 <=>
                  /\ OnUnsupportedList(n)
                  /\ ~Recognized(n)
                  /\ \/ ~ProviderShape(n)
                     \/ PrefixOf(n) \in SUPPORTED_PREFIXES
                     \/ PrefixOf(n) \notin KNOWN_PROVIDER_PREFIXES
            /\ (\A m \in Range(unsupported_params(cls)) : Recognized(m)) =>
                  Cardinality(BucketsHolding(n)) <= 1

\* a call has ended with a name both in unsupported_warnings and in errors
C9_Witness ==
    /\ FlagOn
    /\ Done
    /\ \E n \in InputNames : BucketsHolding(n) = {"errors", "unsupported_warnings"}

(* ---------------- C10 ---------------- *)

\* C10: in the two shipped classes every entry of unsupported_params is a
\* field bound by __init__ (listing: page_cursor and page_below; single
\* entry: none); so with validation enabled page_cursor or page_below passed
\* to the listing endpoint is named by a QueryParamNotUsed notice and is not
\* in errors, an input of these two names only does not raise, and the
\* single-entry endpoint never emits QueryParamNotUsed.
C10_UnsupportedAreRecognized ==
    /\ unsupported_params("EntryListingQueryParams") = <<n_page_cursor, n_page_below>>
    /\ unsupported_params("SingleEntryQueryParams") = <<>>
    /\ \A c \in {"EntryListingQueryParams", "SingleEntryQueryParams"} :
          Range(unsupported_params(c)) \subseteq InstanceFields(c)
    /\ (FlagOn /\ Done /\ cls = "EntryListingQueryParams") =>
          /\ \A n \in InputNames \cap {n_page_cursor, n_page_below} :
                /\ \E k \in Emitted("QueryParamNotUsed") :
                      Occ(emitted[k].params, n) = Occ(query_params, n)
                /\ Occ(errors, n) = 0
                /\ Occ(warnings, n) = 0
          /\ InputNames \subseteq {n_page_cursor, n_page_below} =>
                (pc = "returned" /\ Emitted("BadRequest") = {})
    /\ cls = "SingleEntryQueryParams" => Emitted("QueryParamNotUsed") = {}

\* the listing endpoint has returned on page_cursor and page_below with the
\* one notice naming both
C10_Witness ==
    /\ FlagOn
    /\ pc = "returned"
    /\ cls = "EntryListingQueryParams"
    /\ query_params = <<n_page_cursor, n_page_below>>
    /\ emitted = <<[category |-> "QueryParamNotUsed",
                    params |-> <<n_page_cursor, n_page_below>>]>>

(* ---------------- C11 ---------------- *)

\* the name is invalid: unrecognized, and without provider shape or with a
\* supported prefix
IsInvalid(n) ==
    /\ ~Recognized(n)
    /\ \/ ~ProviderShape(n)
       \/ PrefixOf(n) \in SUPPORTED_PREFIXES

\* the name is an unknown-provider name: unrecognized, with provider shape
\* and a prefix in neither prefix set
IsUnknownProvider(n) ==
    /\ ~Recognized(n)
    /\ ProviderShape(n)
    /\ PrefixOf(n) \notin SUPPORTED_PREFIXES
    /\ PrefixOf(n) \notin KNOWN_PROVIDER_PREFIXES

\* the occurrences of the input that belong in the list of a category, in
\* input order
FullBucket(cat) ==
    CASE cat = "BadRequest" ->
           SelectSeq(query_params, LAMBDA n : IsInvalid(n))
      [] cat = "UnknownProviderQueryParameter" ->
           SelectSeq(query_params, LAMBDA n : IsUnknownProvider(n))
      [] cat = "QueryParamNotUsed" ->
           SelectSeq(query_params, LAMBDA n : OnUnsupportedList(n))

Categories ==
    {"UnknownProviderQueryParameter", "QueryParamNotUsed", "BadRequest"}

\* C11: with validation enabled nothing is emitted before every input name
\* has been evaluated; each of BadRequest and the two notices occurs at most
\* once per call, carries all occurrences of its names and only those, in
\* input order, and at the end of the call has occurred exactly when the
\* input holds a name of its kind.
C11_Batched ==
    FlagOn =>
        /\ emitted # <<>> => (i = Len(query_params) /\ pc \notin {"start", "loop"})
        /\ \A cat \in Categories : Cardinality(Emitted(cat)) <= 1
        /\ \A k \in DOMAIN emitted :
              emitted[k].params = FullBucket(emitted[k].category)
        /\ Done =>
              /\ \A cat \in Categories :
                    (Emitted(cat) # {}) <=> (FullBucket(cat) # <<>>)
              /\ (pc = "raised") <=> (\E n \in InputNames : IsInvalid(n))
              /\ errors = FullBucket("BadRequest")
              /\ warnings = FullBucket("UnknownProviderQueryParameter")
              /\ unsupported_warnings = FullBucket("QueryParamNotUsed")

\* a call has raised with two different invalid names, both reported in
\* input order
C11_Witness ==
    /\ FlagOn
    /\ pc = "raised"
    /\ Len(query_params) = 2
    /\ query_params[1] # query_params[2]
    /\ emitted[Len(emitted)] = [category |-> "BadRequest", params |-> query_params]

(* ---------------- C12 ---------------- *)

\* the name starts with "_" and its second segment is empty: "__x", "__",
\* "___"
EmptyPrefixSegment(n) ==
    /\ Len(n) >= 2
    /\ n[1] = "_"
    /\ n[2] = "_"

\* C12: with validation enabled an unrecognized name whose second segment is
\* empty has no provider prefix: every occurrence is in errors, none is in
\* warnings and none is silently accepted, so the call raises BadRequest.
C12_EmptyPrefixIsInvalid ==
    (FlagOn /\ Done) =>
        \A n \in InputNames :
            (~Recognized(n) /\ EmptyPrefixSegment(n)) =>
                /\ Occ(errors, n) = Occ(query_params, n)
                /\ Occ(warnings, n) = 0
                /\ pc = "raised"

(* ---------------- C13 ---------------- *)

\* the query-parameter fields each shipped class declares
DeclaredFields(c) ==
    CASE c = "EntryListingQueryParams" ->
           {n_filter, n_response_format, n_email_address, n_response_fields,
            n_sort, n_page_limit, n_page_offset, n_page_number, n_page_cursor,
            n_page_above, n_page_below, n_include, n_api_hint}
      [] c = "SingleEntryQueryParams" ->
           {n_response_format, n_email_address, n_response_fields, n_include,
            n_api_hint}

\* C13: on the two shipped endpoint kinds, with validation enabled, a name is
\* treated as recognized exactly when it is one of the declared fields (13
\* for listing, 5 for single entry): a declared field is in neither errors
\* nor warnings, and every other name, check_params, unsupported_params and
\* __init__ included, is classified by its shape and prefix like any
\* unrecognized name.
C13_RecognizedIsDeclared ==
    /\ Cardinality(DeclaredFields("EntryListingQueryParams")) = 13
    /\ Cardinality(DeclaredFields("SingleEntryQueryParams")) = 5
    /\ (FlagOn /\ Done
           /\ cls \in {"EntryListingQueryParams", "SingleEntryQueryParams"}) =>
          \A n \in InputNames :
              IF n \in DeclaredFields(cls)
              THEN Occ(errors, n) = 0 /\ Occ(warnings, n) = 0
              ELSE IF ~ProviderShape(n) \/ PrefixOf(n) \in SUPPORTED_PREFIXES
              THEN Occ(errors, n) = Occ(query_params, n) /\ Occ(warnings, n) = 0
              ELSE IF PrefixOf(n) \notin KNOWN_PROVIDER_PREFIXES
              THEN Occ(warnings, n) = Occ(query_params, n) /\ Occ(errors, n) = 0
              ELSE Occ(errors, n) = 0 /\ Occ(warnings, n) = 0

====
